---- MODULE Spec2Model ----
(***************************************************************************)
(* A model of app.py, the AI Market Advisor script: news headlines are     *)
(* given a sentiment label, mapped to a sector by keyword containment, the *)
(* sector's symbols are analysed (memoized), filtered and ranked, and the  *)
(* top three are displayed with an optional Telegram alert.                *)
(*                                                                         *)
(* Scaling.  Polarity scores are integers in hundredths (0.1 is 10).       *)
(* Average daily returns are integers in units of 0.0005 (0.001 is 2).     *)
(* Time is counted in half hours (3600 s is 2, 86400 s is 48).             *)
(* Text is a sequence of one-character strings.                            *)
(***************************************************************************)
EXTENDS Integers, Sequences, FiniteSets, TLC

VARIABLES
    \* ---- the script run (Streamlit re-executes app.py top to bottom) ----
    pc,                 \* "start" | "loop" | "done" | "aborted"
    secrets,            \* TRUE iff st.secrets holds telegram token and chat_id
    now,                \* wall clock, half hours
    ticks,              \* number of clock advances so far
    cache,              \* st.cache_data: key -> <<>> or <<[t, val]>>
    sector_stocks_map,  \* app.py:176
    news_df,            \* app.py:177, the rows' headlines
    idx,                \* position of the for loop of app.py:190 (1-based)
    found_suggestions,  \* app.py:189
    clicked,            \* index of the alert button whose click started this run, 0 if none
    shown,              \* messages st.info/warning/error/toast showed in this run
    calls,              \* the pipeline stages executed in this run: <<stage, index, symbol>>
    results,            \* per processed headline, the locals of the loop body
    \* ---- observers of the memoization layer ----
    written,            \* key -> <<>> or <<[t, val]>>: what was computed since the last clear
    events,             \* <<key, "hit" | "miss">> of this run
    fresh,              \* TRUE iff this run is the first one after a cache clear
    \* ---- function harness (pure functions applied to drawn inputs) ----
    call,               \* the call: [fn, polarity, headline, sentiment, candidates]
    ret                 \* its result, <<>> before the call returns

runVars   == <<pc, secrets, now, ticks, cache, sector_stocks_map, news_df, idx,
               found_suggestions, clicked, shown, calls, results>>
ghostVars == <<written, events, fresh>>
fnVars    == <<call, ret>>
vars      == <<runVars, ghostVars, fnVars>>

-----------------------------------------------------------------------------
(* Bounds of the model *)

MaxPolarity  == 100   \* polarity scores range over -MaxPolarity..MaxPolarity
MaxWords     == 3     \* words per drawn headline (function harness)
MaxCands     == 4     \* candidates per drawn candidate list (function harness)
MaxHeadlines == 2     \* headlines per news feed (pipeline)
MaxTicks     == 1     \* clock advances per behaviour (pipeline)

(* Program constants *)

POS_POLARITY    == 10     \* 0.1, app.py:105
NEG_POLARITY    == -10    \* -0.1, app.py:105
BUY_THRESHOLD   == 2      \* 0.001, app.py:216
AVOID_THRESHOLD == -2     \* -0.001, app.py:219
TOP_N           == 3      \* recommendations[:3], app.py:223 and 230
NEWS_ROWS       == 15     \* head(15), app.py:54
NEWS_TTL        == 2      \* ttl=3600, app.py:39
PERF_TTL        == 48     \* ttl=86400, app.py:115
NO_TTL          == 0      \* st.cache_data without ttl, app.py:67: entries never expire

-----------------------------------------------------------------------------
(* Generic helpers *)

None    == <<>>
Some(x) == <<x>>

Min(a, b) == IF a < b THEN a ELSE b

Reverse(s) == [i \in 1..Len(s) |-> s[Len(s) + 1 - i]]

Take(s, n) == SubSeq(s, 1, Min(n, Len(s)))

RECURSIVE SelectSeqRec(_, _)
RECURSIVE Concat(_)
Concat(ss) == IF ss = <<>> THEN <<>> ELSE Head(ss) \o Concat(Tail(ss))

-----------------------------------------------------------------------------
(* Text: str.lower() and the `in` operator on strings *)

UPPER == <<"A","B","C","D","E","F","G","H","I","J","K","L","M",
           "N","O","P","Q","R","S","T","U","V","W","X","Y","Z">>
LOWER == <<"a","b","c","d","e","f","g","h","i","j","k","l","m",
           "n","o","p","q","r","s","t","u","v","w","x","y","z">>

LowerChar(c) ==
    IF \E i \in 1..Len(UPPER) : UPPER[i] = c
    THEN LOWER[CHOOSE i \in 1..Len(UPPER) : UPPER[i] = c]
    ELSE c

\* str.lower(), app.py:109
Lower(text) == [i \in 1..Len(text) |-> LowerChar(text[i])]

\* `keyword in headline_lower`, app.py:111: substring containment
StrIn(keyword, text) ==
    \E i \in 1..(Len(text) - Len(keyword) + 1) :
        SubSeq(text, i, i + Len(keyword) - 1) = keyword

-----------------------------------------------------------------------------
(* SECTOR_KEYWORDS, app.py:25-32, in declaration order *)

SECTOR_KEYWORDS ==
  <<
     [sector |-> "AUTOMOBILE & AUTO COMPONENTS",
      keywords |-> <<<<"a","u","t","o">>,
                     <<"m","a","r","u","t","i">>,
                     <<"m","a","h","i","n","d","r","a">>,
                     <<"t","a","t","a"," ","m","o","t","o","r","s">>,
                     <<"h","e","r","o">>,
                     <<"b","a","j","a","j">>,
                     <<"e","v">>>>],
     [sector |-> "PHARMA & HEALTHCARE",
      keywords |-> <<<<"p","h","a","r","m","a">>,
                     <<"h","e","a","l","t","h">>,
                     <<"c","i","p","l","a">>,
                     <<"s","u","n"," ","p","h","a","r","m","a">>,
                     <<"l","u","p","i","n">>,
                     <<"d","r"," ","r","e","d","d","y">>,
                     <<"h","e","a","l","t","h","c","a","r","e">>>>],
     [sector |-> "IT - SOFTWARE",
      keywords |-> <<<<"i","t">>,
                     <<"t","e","c","h">>,
                     <<"t","c","s">>,
                     <<"i","n","f","o","s","y","s">>,
                     <<"w","i","p","r","o">>,
                     <<"h","c","l">>,
                     <<"s","o","f","t","w","a","r","e">>>>],
     [sector |-> "FINANCIAL SERVICES",
      keywords |-> <<<<"b","a","n","k">>,
                     <<"h","d","f","c">>,
                     <<"i","c","i","c","i">>,
                     <<"s","b","i">>,
                     <<"a","x","i","s">>,
                     <<"f","i","n","a","n","c","e">>,
                     <<"r","b","i">>,
                     <<"n","b","f","c">>>>],
     [sector |-> "OIL GAS & FUELS",
      keywords |-> <<<<"o","i","l">>,
                     <<"g","a","s">>,
                     <<"o","n","g","c">>,
                     <<"r","e","l","i","a","n","c","e">>,
                     <<"b","p","c","l">>,
                     <<"c","r","u","d","e">>,
                     <<"e","n","e","r","g","y">>>>],
     [sector |-> "METALS & MINING",
      keywords |-> <<<<"m","e","t","a","l">>,
                     <<"s","t","e","e","l">>,
                     <<"t","a","t","a"," ","s","t","e","e","l">>,
                     <<"j","s","w">>,
                     <<"h","i","n","d","a","l","c","o">>,
                     <<"c","o","a","l">>,
                     <<"m","i","n","i","n","g">>>>]
  >>

NoSector == "None"   \* Python's None as returned by map_headline_to_sector

-----------------------------------------------------------------------------
(* analyze_sentiment, app.py:102-106.  TextBlob's polarity of the text is   *)
(* an input: a headline is a record [title, polarity].                      *)

\* variant: the comparisons are not strict
SentimentLabelInclusive(polarity) ==
    IF polarity >= POS_POLARITY THEN "POSITIVE"
    ELSE IF polarity <= NEG_POLARITY THEN "NEGATIVE"
    ELSE "NEUTRAL"
\* app.py:105
SentimentLabel(polarity) ==
    IF polarity > POS_POLARITY THEN "POSITIVE"
    ELSE IF polarity < NEG_POLARITY THEN "NEGATIVE"
    ELSE "NEUTRAL"

analyze_sentiment(h) == <<SentimentLabel(h.polarity), h.polarity>>

-----------------------------------------------------------------------------
(* map_headline_to_sector, app.py:108-113 *)

\* any(keyword in headline_lower for keyword in keywords), app.py:111
AnyKeyword(keywords, headline_lower) ==
    \E k \in 1..Len(keywords) : StrIn(keywords[k], headline_lower)

\* the for loop of app.py:110-113 from catalog position i on
RECURSIVE SectorScan(_, _)
SectorScan(i, headline_lower) ==
    IF i > Len(SECTOR_KEYWORDS) THEN NoSector
    ELSE IF AnyKeyword(SECTOR_KEYWORDS[i].keywords, headline_lower)
         THEN SECTOR_KEYWORDS[i].sector
         ELSE SectorScan(i + 1, headline_lower)

\* variant: the catalog is scanned from its last entry
RECURSIVE SectorScanLast(_, _)
SectorScanLast(i, headline_lower) ==
    IF i < 1 THEN NoSector
    ELSE IF AnyKeyword(SECTOR_KEYWORDS[i].keywords, headline_lower)
         THEN SECTOR_KEYWORDS[i].sector
         ELSE SectorScanLast(i - 1, headline_lower)

map_headline_to_sector_last(headline) ==
    SectorScanLast(Len(SECTOR_KEYWORDS), Lower(headline))
map_headline_to_sector(headline) == SectorScan(1, Lower(headline))

-----------------------------------------------------------------------------
(* list.sort(key=...), app.py:217 and 220.  CPython's list.sort is a stable *)
(* (binary) insertion sort on lists this short; with reverse=True it        *)
(* reverses the list, sorts it stably in ascending order and reverses the   *)
(* result, which keeps equal keys in their original order.                  *)

\* insert x behind every element whose key is <= x's key
RECURSIVE InsertByKey(_, _)
InsertByKey(sorted, x) ==
    IF sorted = <<>> THEN <<x>>
    ELSE IF Head(sorted).avg_return <= x.avg_return
         THEN <<Head(sorted)>> \o InsertByKey(Tail(sorted), x)
         ELSE <<x>> \o sorted

RECURSIVE SortAscending(_)
SortAscending(s) ==
    IF s = <<>> THEN <<>>
    ELSE InsertByKey(SortAscending(SubSeq(s, 1, Len(s) - 1)), s[Len(s)])

\* variant: the descending sort reverses an ascending sort
ListSortLateReverse(s, reverse) ==
    IF reverse THEN Reverse(SortAscending(s)) ELSE SortAscending(s)
ListSort(s, reverse) ==
    IF reverse THEN Reverse(SortAscending(Reverse(s))) ELSE SortAscending(s)

SelectSeqRec(s, keep) ==
    IF s = <<>> THEN <<>>
    ELSE (IF keep[1] THEN <<Head(s)>> ELSE <<>>)
         \o SelectSeqRec(Tail(s), Tail(keep))

\* a list comprehension [x for x in s if keep(x)] given the flags keep(x)
Filter(s, keep) == SelectSeqRec(s, keep)

-----------------------------------------------------------------------------
(* The recommendation filter and sort, app.py:214-220 *)

\* variant: the thresholds are not strict
RecommendInclusive(sentiment, valid_stocks) ==
    IF sentiment = "POSITIVE"
    THEN ListSort(Filter(valid_stocks,
                    [i \in 1..Len(valid_stocks) |->
                        valid_stocks[i].avg_return >= BUY_THRESHOLD]), TRUE)
    ELSE ListSort(Filter(valid_stocks,
                    [i \in 1..Len(valid_stocks) |->
                        valid_stocks[i].avg_return <= AVOID_THRESHOLD]), FALSE)
Recommend(sentiment, valid_stocks) ==
    IF sentiment = "POSITIVE"
    THEN ListSort(Filter(valid_stocks,
                    [i \in 1..Len(valid_stocks) |->
                        valid_stocks[i].avg_return > BUY_THRESHOLD]), TRUE)
    ELSE ListSort(Filter(valid_stocks,
                    [i \in 1..Len(valid_stocks) |->
                        valid_stocks[i].avg_return < AVOID_THRESHOLD]), FALSE)

-----------------------------------------------------------------------------
(* Display and alert, app.py:222-231 and 126-144.                           *)
(* '{:.3%}'.format(r) and f"{r * 100:.3f}%" both print the return as a      *)
(* percentage with three decimals: one unit of 0.0005 is 0.050 %, so the    *)
(* printed number is 50 thousandths of a percent per unit.                  *)

PercentMilli(avg_return) == avg_return * 50

\* rec_df of app.py:223-224: the rows of the displayed table
\* variant: the table is not cut to the top three
DisplayAll(recommendations) ==
    [i \in 1..Len(recommendations) |->
        [symbol |-> recommendations[i].symbol,
         avg_return |-> PercentMilli(recommendations[i].avg_return)]]
DisplayTable(recommendations) ==
    [i \in 1..Len(Take(recommendations, TOP_N)) |->
        [symbol |-> recommendations[i].symbol,
         avg_return |-> PercentMilli(recommendations[i].avg_return)]]

\* format_telegram_message, app.py:126-144
format_telegram_message(headline_info, recommendations) ==
    [headline  |-> headline_info.title,
     sentiment |-> headline_info.sentiment,
     score     |-> headline_info.score,
     sector    |-> headline_info.sector,
     heading   |-> IF headline_info.sentiment = "POSITIVE"
                   THEN "Top BUY Recommendations" ELSE "Top AVOID Recommendations",
     lines     |-> [i \in 1..Len(recommendations) |->
                      [symbol |-> recommendations[i].symbol,
                       avg_ret_pct |-> PercentMilli(recommendations[i].avg_return)]]]

\* the message built at app.py:229-230
AlertMessage(headline, sentiment, score, mapped_sector, recommendations) ==
    format_telegram_message(
        [title |-> headline, sentiment |-> sentiment, score |-> score,
         sector |-> mapped_sector],
        Take(recommendations, TOP_N))

-----------------------------------------------------------------------------
(* The world outside the script *)

\* headlines a feed may carry: the title and TextBlob's polarity of it
HEADLINES ==
    << [title |-> <<"M","a","r","u","t","i"," ","E","V">>,              polarity |-> 40],
       [title |-> <<"A","u","t","o"," ","l","o","s","s">>,              polarity |-> -50],
       [title |-> <<"A","u","t","o"," ","l","e","v","e","l">>,          polarity |-> 10],
       [title |-> <<"g","o","o","d"," ","m","o","n","s","o","o","n">>,  polarity |-> 70],
       [title |-> <<"b","a","n","k"," ","p","r","o","f","i","t">>,      polarity |-> 30] >>

\* the feed of n rows that starts at catalogue position k
FeedRows(k, n) == [i \in 1..n |-> HEADLINES[((k + i - 2) % Len(HEADLINES)) + 1]]

\* what requests.get and pd.read_xml give, app.py:46-51
FeedResponses ==
    { [kind |-> k, rows |-> <<>>] :
        k \in {"network_error", "parse_error", "missing_columns"} }
    \cup
    { [kind |-> "ok", rows |-> FeedRows(k, MaxHeadlines)] : k \in 1..Len(HEADLINES) }

\* what pd.read_csv gives, app.py:71; Industry is given as upper().strip() leaves it
CsvFiles ==
    { [kind |-> k, rows |-> <<>>] :
        k \in {"file_not_found", "no_symbol_column", "no_industry_column", "read_error"} }
    \cup
    { [kind |-> "ok",
       rows |-> << [Symbol |-> "MARUTI",     Industry |-> "AUTOMOBILE & AUTO COMPONENTS"],
                   [Symbol |-> "PAGEIND",    Industry |-> "TEXTILES"],
                   [Symbol |-> "TATAMOTORS", Industry |-> "AUTOMOBILE & AUTO COMPONENTS"] >>] }

\* the symbols whose statistics the cache may hold
CsvSymbols == {"MARUTI", "TATAMOTORS"}

\* what yf.download gives, app.py:118; mean is the mean of Close.pct_change()
Downloads ==
    { [kind |-> "error", mean |-> 0], [kind |-> "empty", mean |-> 0] }
    \cup { [kind |-> "data", mean |-> m] : m \in {-3, 3} }

\* what requests.post gives, app.py:153
PostResults == {"status_200", "status_other", "exception"}

-----------------------------------------------------------------------------
(* st.cache_data, app.py:39, 67, 115 and 168.  An entry is used while it is *)
(* younger than its ttl; a cached function that raises caches nothing.      *)

CacheKeys == {"news", "stocks"} \cup CsvSymbols

EmptyCache == [k \in CacheKeys |-> None]

TtlOf(key) == IF key = "news" THEN NEWS_TTL ELSE IF key = "stocks" THEN NO_TTL ELSE PERF_TTL

\* variant: the ttl is ignored
CacheValidForever(c, key) == c[key] # None
CacheValid(c, key) ==
    /\ c[key] # None
    /\ (TtlOf(key) = NO_TTL \/ now - c[key][1].t < TtlOf(key))

\* a call of a cached function: `computed` is what the body gives on a miss
Memo(c, key, computed) ==
    IF CacheValid(c, key)
    THEN [out |-> c[key][1].val, cache |-> c, hit |-> TRUE]
    ELSE [out |-> computed,
          cache |-> IF computed.raised THEN c
                    ELSE [c EXCEPT ![key] = Some([t |-> now, val |-> computed])],
          hit |-> FALSE]

-----------------------------------------------------------------------------
(* The cached loaders.  Each gives [raised, val, msgs]: whether an error    *)
(* escapes, the value returned and the messages shown (st elements of a     *)
(* cached function are replayed when its cached result is used).            *)

\* fetch_news_from_rss, app.py:40-64
fetch_news_from_rss(response) ==
    CASE response.kind = "network_error" ->
            [raised |-> FALSE, val |-> <<>>, msgs |-> {<<"news_network_error", 0>>}]
      [] response.kind = "parse_error" ->
            [raised |-> FALSE, val |-> <<>>, msgs |-> {<<"news_parse_error", 0>>}]
      [] response.kind = "missing_columns" ->
            [raised |-> FALSE, val |-> <<>>, msgs |-> {<<"news_columns_error", 0>>}]
      [] OTHER ->
            [raised |-> FALSE, val |-> Take(response.rows, NEWS_ROWS), msgs |-> {}]

\* df.groupby(industry)[stock].apply(list).to_dict(), app.py:89: one entry per
\* industry, its symbols in file order
IndustriesOf(rows) == { rows[i].Industry : i \in 1..Len(rows) }

SymbolsOf(rows, industry) ==
    LET keep == [i \in 1..Len(rows) |-> rows[i].Industry = industry]
        kept == SelectSeqRec(rows, keep)
    IN [i \in 1..Len(kept) |-> kept[i].Symbol]

RECURSIVE GroupBy(_, _)
GroupBy(rows, industries) ==
    IF industries = {} THEN <<>>
    ELSE LET first == CHOOSE a \in industries : TRUE
         IN <<[industry |-> first, symbols |-> SymbolsOf(rows, first)]>>
            \o GroupBy(rows, industries \ {first})

\* load_nse_stocks, app.py:68-97
load_nse_stocks(csv) ==
    CASE csv.kind = "file_not_found" ->
            [raised |-> FALSE, val |-> <<>>, msgs |-> {<<"csv_not_found_error", 0>>}]
      [] csv.kind = "no_symbol_column" ->
            [raised |-> FALSE, val |-> <<>>, msgs |-> {<<"csv_symbol_column_error", 0>>}]
      [] csv.kind = "no_industry_column" ->
            [raised |-> FALSE, val |-> <<>>, msgs |-> {<<"csv_industry_column_error", 0>>}]
      [] csv.kind = "read_error" ->
            [raised |-> FALSE, val |-> <<>>, msgs |-> {<<"csv_unexpected_error", 0>>}]
      [] OTHER ->
            [raised |-> FALSE, val |-> GroupBy(csv.rows, IndustriesOf(csv.rows)), msgs |-> {}]

\* sector_stocks_map.get(mapped_sector, []), app.py:205
MapGet(map, sector) ==
    IF \E i \in 1..Len(map) : map[i].industry = sector
    THEN map[CHOOSE i \in 1..Len(map) : map[i].industry = sector].symbols
    ELSE <<>>

\* analyze_stock_performance, app.py:116-124
\* variant: without the try/except of app.py:117 and 123
analyze_stock_performance_unguarded(symbol, download) ==
    CASE download.kind = "error" -> [raised |-> TRUE, val |-> None, msgs |-> {}]
      [] download.kind = "empty" -> [raised |-> FALSE, val |-> None, msgs |-> {}]
      [] OTHER -> [raised |-> FALSE, msgs |-> {},
                   val |-> Some([symbol |-> symbol, avg_return |-> download.mean])]
analyze_stock_performance(symbol, download) ==
    CASE download.kind = "error" -> [raised |-> FALSE, val |-> None, msgs |-> {}]
      [] download.kind = "empty" -> [raised |-> FALSE, val |-> None, msgs |-> {}]
      [] OTHER -> [raised |-> FALSE, msgs |-> {},
                   val |-> Some([symbol |-> symbol, avg_return |-> download.mean])]

\* send_telegram_message, app.py:146-159, with TELEGRAM_TOKEN and
\* TELEGRAM_CHAT_ID set iff `configured`
\* variant: without the try/except of app.py:152 and 158
send_telegram_message_unguarded(message, configured, post) ==
    IF ~configured
    THEN [raised |-> FALSE, sent |-> None, msgs |-> {"telegram_not_configured_warning"}]
    ELSE CASE post = "status_200" ->
                [raised |-> FALSE, sent |-> Some(message), msgs |-> {"alert_sent_toast"}]
           [] post = "status_other" ->
                [raised |-> FALSE, sent |-> None, msgs |-> {"telegram_failed_error"}]
           [] OTHER ->
                [raised |-> TRUE, sent |-> None, msgs |-> {}]
send_telegram_message(message, configured, post) ==
    IF ~configured
    THEN [raised |-> FALSE, sent |-> None, msgs |-> {"telegram_not_configured_warning"}]
    ELSE CASE post = "status_200" ->
                [raised |-> FALSE, sent |-> Some(message), msgs |-> {"alert_sent_toast"}]
           [] post = "status_other" ->
                [raised |-> FALSE, sent |-> None, msgs |-> {"telegram_failed_error"}]
           [] OTHER ->
                [raised |-> FALSE, sent |-> None, msgs |-> {"telegram_exception_error"}]

-----------------------------------------------------------------------------
(* The script run.  Streamlit executes app.py from the top on every         *)
(* interaction; the run is cut into the part before the loop (StartRun),    *)
(* one step per loop iteration (ProcessHeadline) and the part after the     *)
(* loop (FinishLoop).                                                       *)

\* no function call is pending while the script runs
NoCall == [fn |-> "none", polarity |-> 0, headline |-> <<>>,
           sentiment |-> "NEUTRAL", candidates |-> <<>>]

Init ==
    /\ pc = "start"
    /\ secrets \in BOOLEAN
    /\ now = 0 /\ ticks = 0
    /\ cache = EmptyCache
    /\ sector_stocks_map = <<>> /\ news_df = <<>>
    /\ idx = 0 /\ found_suggestions = FALSE /\ clicked = 0
    /\ shown = {} /\ calls = {} /\ results = <<>>
    /\ written = EmptyCache /\ events = {} /\ fresh = FALSE
    /\ call = NoCall /\ ret = None

\* the answers of the outside world when the run asks, one fixed answer when
\* it does not ask
Unasked(answers) == CHOOSE a \in answers : TRUE

Asked(answers, asks) == IF asks THEN answers ELSE {Unasked(answers)}

\* the observers' view of one cached call
EventOf(key, m) == <<key, IF m.hit THEN "hit" ELSE "miss">>

Record(w, key, m) ==
    IF m.hit \/ m.out.raised THEN w
    ELSE [w EXCEPT ![key] = Some([t |-> now, val |-> m.out.val])]

\* `if news_df.empty or not sector_stocks_map` is false, app.py:186
\* variant: the guard looks at the news only
AnalysisCanRunNewsOnly(news, map) == news # <<>>
AnalysisCanRun(news, map) == ~(news = <<>> \/ map = <<>>)

\* app.py:12-18 and 163-188
StartRun ==
    /\ pc = "start"
    /\ \E csv \in Asked(CsvFiles, ~CacheValid(cache, "stocks")),
          response \in Asked(FeedResponses, ~CacheValid(cache, "news")) :
         \E ms \in {Memo(cache, "stocks", load_nse_stocks(csv))} :
         \E mn \in {Memo(ms.cache, "news", fetch_news_from_rss(response))} :
         \E msgs \in {(IF secrets THEN {} ELSE {<<"telegram_credentials_info", 0>>})
                       \cup ms.out.msgs \cup mn.out.msgs
                       \cup (IF mn.out.val = <<>> THEN {<<"news_warning", 0>>} ELSE {})} :
            /\ cache' = mn.cache
            /\ written' = Record(Record(written, "stocks", ms), "news", mn)
            /\ events' = events \cup {EventOf("stocks", ms), EventOf("news", mn)}
            /\ sector_stocks_map' = ms.out.val
            /\ news_df' = mn.out.val
            /\ IF ms.out.raised \/ mn.out.raised
               THEN /\ pc' = "aborted"
                    /\ shown' = shown \cup msgs
                    /\ UNCHANGED <<idx, found_suggestions>>
               ELSE IF AnalysisCanRun(mn.out.val, ms.out.val)
               THEN /\ pc' = "loop"
                    /\ idx' = 1
                    /\ found_suggestions' = FALSE
                    /\ shown' = shown \cup msgs
               ELSE /\ pc' = "done"
                    /\ shown' = shown \cup msgs \cup {<<"analysis_warning", 0>>}
                    /\ UNCHANGED <<idx, found_suggestions>>
    /\ UNCHANGED <<secrets, now, ticks, clicked, calls, results, fresh, fnVars>>

\* all_stock_analysis = [analyze_stock_performance(s) for s in stocks_in_sector],
\* app.py:211, each call going through the cache
RECURSIVE AnalyzeAll(_, _, _)
AnalyzeAll(symbols, c, env) ==
    IF symbols = <<>>
    THEN [vals |-> <<>>, memos |-> <<>>, cache |-> c, raised |-> FALSE]
    ELSE LET s == Head(symbols)
             m == Memo(c, s, analyze_stock_performance(s, env[s]))
         IN IF m.out.raised
            THEN [vals |-> <<>>, memos |-> <<m>>, cache |-> m.cache, raised |-> TRUE]
            ELSE LET rest == AnalyzeAll(Tail(symbols), m.cache, env)
                 IN [vals   |-> <<m.out.val>> \o rest.vals,
                     memos  |-> <<m>> \o rest.memos,
                     cache  |-> rest.cache,
                     raised |-> rest.raised]

\* valid_stocks = [s for s in all_stock_analysis if s is not None], app.py:212
ValidStocks(all_stock_analysis) ==
    LET kept == Filter(all_stock_analysis,
                       [i \in 1..Len(all_stock_analysis) |-> all_stock_analysis[i] # None])
    IN [i \in 1..Len(kept) |-> kept[i][1]]

\* `if sentiment != 'NEUTRAL'`, app.py:194
\* variant: the NEUTRAL test is missing
NonNeutralAlways(sentiment) == TRUE
NonNeutral(sentiment) == sentiment # "NEUTRAL"

\* the locals of a loop body that left before the analysis
Skipped(stage, headline, sentiment, score, mapped_sector) ==
    [stage |-> stage, headline |-> headline.title, sentiment |-> sentiment,
     score |-> score, mapped_sector |-> mapped_sector,
     stocks_in_sector |-> <<>>, all_stock_analysis |-> <<>>, valid_stocks |-> <<>>,
     recommendations |-> <<>>, displayed |-> <<>>, button |-> FALSE, sent |-> None]

\* the outside world is consulted only where the run reaches it: a symbol's
\* download on a cache miss, the Telegram post when an alert is sent
ConsultedSymbols ==
    LET sentiment == analyze_sentiment(news_df[idx])[1]
        symbols   == MapGet(sector_stocks_map, map_headline_to_sector(news_df[idx].title))
    IN IF NonNeutral(sentiment)
       THEN { symbols[i] : i \in { n \in 1..Len(symbols) : ~CacheValid(cache, symbols[n]) } }
       ELSE {}

\* the body of the loop of app.py:190-233 for row idx, the world answering
\* with env (downloads) and post (Telegram); each local is bound to its value
\* once, as the assignment of the code does
ProcessHeadlineWith(env, post) ==
    \E headline \in {news_df[idx]} :
    \E label \in {analyze_sentiment(headline)} :
    \E sentiment \in {label[1]}, score \in {label[2]} :
    \E mapped_sector \in {IF NonNeutral(sentiment)
                          THEN map_headline_to_sector(headline.title) ELSE NoSector} :
    \E stocks_in_sector \in {MapGet(sector_stocks_map, mapped_sector)} :
    \E a \in {AnalyzeAll(stocks_in_sector, cache, env)} :
    \E valid_stocks \in {ValidStocks(a.vals)} :
    \E recommendations \in {Recommend(sentiment, valid_stocks)} :
    \E send \in {send_telegram_message(
                     AlertMessage(headline.title, sentiment, score, mapped_sector,
                                  recommendations),
                     secrets, post)} :
    \E perfCalls \in {{ <<"performance", idx, stocks_in_sector[i]>> :
                            i \in 1..Len(a.memos) }} :
       IF ~NonNeutral(sentiment)
       THEN /\ calls' = calls \cup {<<"sentiment", idx, "">>}
            /\ results' = Append(results,
                             Skipped("neutral", headline, sentiment, score, NoSector))
            /\ idx' = idx + 1
            /\ UNCHANGED <<pc, cache, found_suggestions, shown, written, events>>
       ELSE IF mapped_sector = NoSector
       THEN /\ calls' = calls \cup {<<"sentiment", idx, "">>, <<"sector", idx, "">>}
            /\ results' = Append(results,
                             Skipped("no_sector", headline, sentiment, score, NoSector))
            /\ idx' = idx + 1
            /\ UNCHANGED <<pc, cache, found_suggestions, shown, written, events>>
       ELSE IF stocks_in_sector = <<>>
       THEN /\ calls' = calls \cup {<<"sentiment", idx, "">>, <<"sector", idx, "">>}
            /\ results' = Append(results,
                             Skipped("no_stocks", headline, sentiment, score,
                                     mapped_sector))
            /\ found_suggestions' = TRUE
            /\ shown' = shown \cup {<<"no_stocks_warning", idx>>}
            /\ idx' = idx + 1
            /\ UNCHANGED <<pc, cache, written, events>>
       ELSE /\ found_suggestions' = TRUE
            /\ cache' = a.cache
            /\ written' = [k \in CacheKeys |->
                             IF \E i \in 1..Len(a.memos) :
                                   stocks_in_sector[i] = k /\ ~a.memos[i].hit
                                                          /\ ~a.memos[i].out.raised
                             THEN Some([t |-> now, val |-> a.cache[k][1].val.val])
                             ELSE written[k]]
            /\ events' = events \cup { EventOf(stocks_in_sector[i], a.memos[i]) :
                                          i \in 1..Len(a.memos) }
            /\ IF a.raised
               THEN /\ pc' = "aborted"
                    /\ calls' = calls \cup perfCalls
                                  \cup {<<"sentiment", idx, "">>, <<"sector", idx, "">>}
                    /\ UNCHANGED <<results, idx, shown>>
               ELSE LET pressed == recommendations # <<>> /\ clicked = idx
                    IN /\ calls' = calls \cup perfCalls
                                     \cup {<<"sentiment", idx, "">>, <<"sector", idx, "">>,
                                           <<"recommend", idx, "">>}
                                     \cup (IF pressed THEN {<<"alert", idx, "">>} ELSE {})
                       /\ results' = Append(results,
                            [stage |-> "analysed", headline |-> headline.title,
                             sentiment |-> sentiment, score |-> score,
                             mapped_sector |-> mapped_sector,
                             stocks_in_sector |-> stocks_in_sector,
                             all_stock_analysis |-> a.vals,
                             valid_stocks |-> valid_stocks,
                             recommendations |-> recommendations,
                             displayed |-> DisplayTable(recommendations),
                             button |-> recommendations # <<>>,
                             sent |-> IF pressed THEN send.sent ELSE None])
                       /\ shown' = shown
                            \cup (IF recommendations = <<>>
                                  THEN {<<"no_filter_info", idx>>} ELSE {})
                            \cup (IF pressed
                                  THEN { <<m, idx>> : m \in send.msgs } ELSE {})
                       /\ IF pressed /\ send.raised
                          THEN pc' = "aborted" /\ idx' = idx
                          ELSE pc' = pc /\ idx' = idx + 1

\* one iteration of the loop of app.py:190-233
ProcessHeadline ==
    /\ pc = "loop"
    /\ idx <= Len(news_df)
    /\ LET consulted == ConsultedSymbols
       IN \E answers \in [consulted -> Downloads],
             post \in Asked(PostResults, secrets /\ clicked = idx) :
            ProcessHeadlineWith(
                [s \in CsvSymbols |->
                    IF s \in consulted THEN answers[s] ELSE Unasked(Downloads)],
                post)
    /\ UNCHANGED <<secrets, now, ticks, sector_stocks_map, news_df, clicked, fresh, fnVars>>

\* the loop is exhausted; app.py:234-235
FinishLoop ==
    /\ pc = "loop"
    /\ idx > Len(news_df)
    /\ pc' = "done"
    /\ shown' = IF found_suggestions THEN shown ELSE shown \cup {<<"no_match_info", 0>>}
    /\ UNCHANGED <<secrets, now, ticks, cache, sector_stocks_map, news_df, idx,
                   found_suggestions, clicked, calls, results, ghostVars, fnVars>>

\* what a new script run starts from
NewRun(button) ==
    /\ pc' = "start"
    /\ clicked' = button
    /\ idx' = 0 /\ found_suggestions' = FALSE
    /\ sector_stocks_map' = <<>> /\ news_df' = <<>>
    /\ shown' = {} /\ calls' = {} /\ results' = <<>> /\ events' = {}

\* the user reloads the page or touches no button of the script
Rerun ==
    /\ pc = "done"
    /\ NewRun(0)
    /\ fresh' = FALSE
    /\ UNCHANGED <<secrets, now, ticks, cache, written, fnVars>>

\* the user presses "Send This Alert to Telegram" of row i, app.py:228
ClickAlert ==
    /\ pc = "done"
    /\ \E i \in 1..Len(results) :
         /\ results[i].button
         /\ NewRun(i)
    /\ fresh' = FALSE
    /\ UNCHANGED <<secrets, now, ticks, cache, written, fnVars>>

\* the user presses "Clear Cache and Rerun", app.py:167-169: the run it starts
\* clears every cache and starts over
ClearCacheAndRerun ==
    /\ pc = "done"
    /\ cache' = EmptyCache
    /\ written' = EmptyCache
    /\ NewRun(0)
    /\ fresh' = TRUE
    /\ UNCHANGED <<secrets, now, ticks, fnVars>>

\* time passes between runs: an hour (the news ttl) or a day (the statistics ttl)
TickSteps == {2, 48}

Tick ==
    /\ pc = "done"
    /\ ticks < MaxTicks
    /\ \E d \in TickSteps : now' = now + d
    /\ ticks' = ticks + 1
    /\ UNCHANGED <<pc, secrets, cache, sector_stocks_map, news_df, idx, found_suggestions,
                   clicked, shown, calls, results, ghostVars, fnVars>>

Next ==
    \/ StartRun
    \/ ProcessHeadline
    \/ FinishLoop
    \/ Rerun
    \/ ClickAlert
    \/ ClearCacheAndRerun
    \/ Tick

Spec == Init /\ [][Next]_vars

-----------------------------------------------------------------------------
(* Function harness: the pure functions applied to inputs drawn from        *)
(* bounded sets.                                                            *)

\* words of drawn headlines
Vocabulary ==
    << <<"A","u","t","o">>,
       <<"l","o","a","n","s">>,
       <<"b","a","n","k">>,
       <<"M","a","r","u","t","i">>,
       <<"E","V">>,
       <<"p","r","o","f","i","t">>,
       <<"l","e","v","e","l">>,
       <<"S","t","e","e","l">>,
       <<"m","o","n","s","o","o","n">>,
       <<"T","C","S">> >>

\* the words ws[1], ..., ws[n] separated by single blanks
JoinWords(ws) ==
    Concat([i \in 1..Len(ws) |->
              IF i = 1 THEN Vocabulary[ws[i]] ELSE <<" ">> \o Vocabulary[ws[i]]])

\* average daily returns of drawn candidates, in units of 0.0005
RetValues == {-4, -3, -2, 1, 2, 3, 6}

\* ticker symbols of drawn candidates, in the order of the sector's symbol list
SYMBOLS == <<"MARUTI", "TATAMOTORS", "M&M", "HEROMOTOCO", "BAJAJ-AUTO", "EICHERMOT",
             "TVSMOTOR", "ASHOKLEY">>

\* the candidate list of the first n symbols with the returns r[1], ..., r[n]
Candidates(n, r) == [i \in 1..n |-> [symbol |-> SYMBOLS[i], avg_return |-> r[i]]]

\* the pipeline is not running while functions are exercised
RunOff ==
    /\ pc = "off" /\ secrets = FALSE /\ now = 0 /\ ticks = 0 /\ cache = <<>>
    /\ sector_stocks_map = <<>> /\ news_df = <<>> /\ idx = 0
    /\ found_suggestions = FALSE /\ clicked = 0 /\ shown = {} /\ calls = {}
    /\ results = <<>> /\ written = <<>> /\ events = {} /\ fresh = FALSE

InitFn ==
    /\ RunOff
    /\ ret = None
    /\ \/ \E p \in (-MaxPolarity)..MaxPolarity :
            call = [NoCall EXCEPT !.fn = "analyze_sentiment", !.polarity = p]
       \/ \E n \in 1..MaxWords : \E ws \in [1..n -> 1..Len(Vocabulary)] :
            call = [NoCall EXCEPT !.fn = "map_headline_to_sector",
                                  !.headline = JoinWords(ws)]
       \/ \E s \in {"POSITIVE", "NEGATIVE"}, n \in 0..Min(MaxCands, Len(SYMBOLS)) :
          \E r \in [1..n -> RetValues] :
            call = [NoCall EXCEPT !.fn = "recommend", !.sentiment = s,
                                  !.candidates = Candidates(n, r)]

\* analyze_sentiment(text) with TextBlob giving call.polarity
CallAnalyzeSentiment ==
    /\ call.fn = "analyze_sentiment" /\ ret = None
    /\ ret' = Some(analyze_sentiment([title |-> call.headline, polarity |-> call.polarity]))
    /\ UNCHANGED <<call, runVars, ghostVars>>

CallMapHeadlineToSector ==
    /\ call.fn = "map_headline_to_sector" /\ ret = None
    /\ ret' = Some(map_headline_to_sector(call.headline))
    /\ UNCHANGED <<call, runVars, ghostVars>>

\* app.py:214-231 on valid_stocks = call.candidates, the alert button pressed
CallRecommend ==
    /\ call.fn = "recommend" /\ ret = None
    /\ LET recommendations == Recommend(call.sentiment, call.candidates)
       IN ret' = Some([recommendations |-> recommendations,
                       displayed |-> DisplayTable(recommendations),
                       alert |-> AlertMessage(call.headline, call.sentiment,
                                              call.polarity, NoSector, recommendations)])
    /\ UNCHANGED <<call, runVars, ghostVars>>

NextFn == CallAnalyzeSentiment \/ CallMapHeadlineToSector \/ CallRecommend

SpecFn == InitFn /\ [][NextFn]_vars

-----------------------------------------------------------------------------
(* Properties of the pure functions, stated for SpecFn *)

Returned(fn) == call.fn = fn /\ ret # None

\* the avg_return column of a list of stats records
Returns(stocks) == [i \in 1..Len(stocks) |-> stocks[i].avg_return]

\* the position of a symbol in a list of stats records with distinct symbols
PositionOf(symbol, stocks) == CHOOSE i \in 1..Len(stocks) : stocks[i].symbol = symbol

\* C1: the recommendation list holds exactly the candidates with avg_return
\* strictly above +0.001 (POSITIVE), ordered by avg_return descending, or
\* exactly those strictly below -0.001 (NEGATIVE), ordered ascending; a
\* candidate at +0.001 or -0.001 is never in the list; [0.0005, 0.0015,
\* -0.002, 0.003] gives [0.003, 0.0015] and [-0.002].
C1_FilterAndOrder ==
    Returned("recommend") =>
        LET cands == call.candidates
            recs  == ret[1].recommendations
            Passes(c) == IF call.sentiment = "POSITIVE"
                         THEN c.avg_return > 2 ELSE c.avg_return < -2
        IN /\ \A i \in 1..Len(recs) :
                 \E j \in 1..Len(cands) : cands[j] = recs[i] /\ Passes(cands[j])
           /\ \A j \in 1..Len(cands) :
                 Passes(cands[j]) => \E i \in 1..Len(recs) : recs[i] = cands[j]
           /\ Len(recs) = Cardinality({j \in 1..Len(cands) : Passes(cands[j])})
           /\ \A i \in 1..Len(recs) : recs[i].avg_return \notin {2, -2}
           /\ \A i, j \in 1..Len(recs) :
                 i < j => IF call.sentiment = "POSITIVE"
                          THEN recs[i].avg_return >= recs[j].avg_return
                          ELSE recs[i].avg_return <= recs[j].avg_return
           /\ Returns(cands) = <<1, 3, -4, 6>> =>
                 Returns(recs) = IF call.sentiment = "POSITIVE" THEN <<6, 3>> ELSE <<-4>>

\* C1 witness: the example list was ranked under POSITIVE, and a list holding
\* both thresholds was ranked too
C1_Witness ==
    /\ Returned("recommend")
    /\ call.sentiment = "POSITIVE"
    /\ Returns(call.candidates) = <<1, 3, -4, 6>>
    /\ Returns(ret[1].recommendations) = <<6, 3>>

\* C2: the label is POSITIVE iff the score exceeds 0.1, NEGATIVE iff it is
\* below -0.1 and NEUTRAL otherwise; 0.1 and -0.1 are NEUTRAL.
C2_LabelPartition ==
    Returned("analyze_sentiment") =>
        LET s == call.polarity
            label == ret[1][1]
        IN /\ label \in {"POSITIVE", "NEGATIVE", "NEUTRAL"}
           /\ (label = "POSITIVE") <=> (s > 10)
           /\ (label = "NEGATIVE") <=> (s < -10)
           /\ (label = "NEUTRAL") <=> (s >= -10 /\ s <= 10)
           /\ ret[1][2] = s

C2_Witness ==
    /\ Returned("analyze_sentiment")
    /\ call.polarity = 10
    /\ ret[1][1] = "NEUTRAL"

\* keyword k of catalog entry i occurs in the lower-cased text, character by character
OccursLowered(i, text) ==
    \E k \in 1..Len(SECTOR_KEYWORDS[i].keywords) :
        LET kw == SECTOR_KEYWORDS[i].keywords[k]
        IN \E o \in 0..(Len(text) - Len(kw)) :
              \A j \in 1..Len(kw) : LowerChar(text[o + j]) = kw[j]

\* C3: the result is the first sector, in declaration order, one of whose
\* keywords occurs as a substring of the lower-cased headline, and None iff
\* no keyword of any sector occurs.
C3_FirstMatchingSector ==
    Returned("map_headline_to_sector") =>
        LET h == call.headline
            r == ret[1]
            N == Len(SECTOR_KEYWORDS)
        IN /\ (r = NoSector) <=> (\A i \in 1..N : ~OccursLowered(i, h))
           /\ r # NoSector =>
                \E i \in 1..N :
                    /\ SECTOR_KEYWORDS[i].sector = r
                    /\ OccursLowered(i, h)
                    /\ \A e \in 1..(i - 1) : ~OccursLowered(e, h)

\* C3 witness: "Auto loans bank" holds 'auto' and 'bank' and maps to the
\* automobile sector
C3_Witness ==
    /\ Returned("map_headline_to_sector")
    /\ call.headline = <<"A","u","t","o"," ","l","o","a","n","s"," ","b","a","n","k">>
    /\ ret[1] = "AUTOMOBILE & AUTO COMPONENTS"

\* C8: for a non-empty ranked list of length n the displayed table and the
\* alert message both name exactly its first min(3, n) entries, in rank order.
C8_TopThree ==
    (Returned("recommend") /\ ret[1].recommendations # <<>>) =>
        LET recs == ret[1].recommendations
            n    == Len(recs)
            m    == IF n < 3 THEN n ELSE 3
            rows == ret[1].displayed
            msg  == ret[1].alert.lines
        IN /\ Len(rows) = m /\ Len(msg) = m
           /\ \A i \in 1..m : rows[i].symbol = recs[i].symbol
           /\ \A i \in 1..m : msg[i].symbol = recs[i].symbol
           /\ \A i \in 1..m : rows[i].avg_return = 50 * recs[i].avg_return
           /\ \A i \in 1..m : msg[i].avg_ret_pct = 50 * recs[i].avg_return

\* C8 witness: four candidates were ranked and three of them displayed
C8_Witness ==
    /\ Returned("recommend")
    /\ Len(ret[1].recommendations) = 4
    /\ Len(ret[1].displayed) = 3
    /\ Len(ret[1].alert.lines) = 3

\* C10: two candidates of equal avg_return that both pass the filter keep
\* their relative input order, for POSITIVE (descending) and for NEGATIVE
\* (ascending).
C10_StableTies ==
    Returned("recommend") =>
        LET cands == call.candidates
            recs  == ret[1].recommendations
        IN \A i, j \in 1..Len(recs) :
              (i < j /\ recs[i].avg_return = recs[j].avg_return) =>
                  PositionOf(recs[i].symbol, cands) < PositionOf(recs[j].symbol, cands)

\* C10 witness: a descending ranking with a tie between two candidates
C10_Witness ==
    /\ Returned("recommend")
    /\ call.sentiment = "POSITIVE"
    /\ \E i, j \in 1..Len(ret[1].recommendations) :
          /\ i < j
          /\ ret[1].recommendations[i].avg_return = ret[1].recommendations[j].avg_return

-----------------------------------------------------------------------------
(* Properties of the script run, stated for Spec *)

\* the run has passed the guard of app.py:186
PastGuard == pc \in {"loop", "done"}

\* the headline is one the loop body analyses: its score is outside
\* [-0.1, 0.1] and some sector keyword occurs in it
Actionable(h) ==
    /\ (h.polarity > 10 \/ h.polarity < -10)
    /\ \E e \in 1..Len(SECTOR_KEYWORDS) : OccursLowered(e, h.title)

\* C4: the performance analysis, the recommendation filter/sort and the
\* alert button happen for a headline only if its label is POSITIVE or
\* NEGATIVE and its sector is not None.
C4_OnlyActionableAnalysed ==
    /\ \A c \in calls :
          c[1] \in {"performance", "recommend", "alert"} => Actionable(news_df[c[2]])
    /\ \A c \in calls : c[1] = "sector" => ~(news_df[c[2]].polarity \in -10..10)
    /\ \A i \in 1..Len(results) :
          (\/ results[i].all_stock_analysis # <<>>
           \/ results[i].recommendations # <<>>
           \/ results[i].displayed # <<>>
           \/ results[i].button
           \/ results[i].sent # None) => Actionable(news_df[i])

\* C4 witness: a finished run that skipped a NEUTRAL headline and offered an
\* alert button for another one
C4_Witness ==
    /\ pc = "done"
    /\ \E i, j \in 1..Len(results) :
          /\ results[i].stage = "neutral"
          /\ \E e \in 1..Len(SECTOR_KEYWORDS) : OccursLowered(e, news_df[i].title)
          /\ results[j].button

AllUnavailable(r) ==
    /\ r.stage = "analysed"
    /\ \A k \in 1..Len(r.all_stock_analysis) : r.all_stock_analysis[k] = None

\* C5: no error escapes analyze_stock_performance; every symbol of the
\* sector is analysed and gives a stats record or None; valid_stocks holds
\* exactly the records, in order; if every symbol is unavailable the
\* recommendation list is empty and the run goes on with the next headline.
C5_UnavailableDropped ==
    /\ pc # "aborted"
    /\ pc = "loop" => Len(results) = idx - 1
    /\ (pc = "done" /\ news_df # <<>> /\ sector_stocks_map # <<>>) =>
          Len(results) = Len(news_df)
    /\ \A i \in 1..Len(results) :
          LET r == results[i]
              available == { k \in 1..Len(r.all_stock_analysis) :
                               r.all_stock_analysis[k] # None }
          IN r.stage = "analysed" =>
               /\ Len(r.all_stock_analysis) = Len(r.stocks_in_sector)
               /\ \A k \in 1..Len(r.stocks_in_sector) :
                     /\ <<"performance", i, r.stocks_in_sector[k]>> \in calls
                     /\ \/ r.all_stock_analysis[k] = None
                        \/ /\ Len(r.all_stock_analysis[k]) = 1
                           /\ r.all_stock_analysis[k][1].symbol = r.stocks_in_sector[k]
               /\ Len(r.valid_stocks) = Cardinality(available)
               /\ \A k \in available :
                     \E v \in 1..Len(r.valid_stocks) :
                        /\ r.valid_stocks[v] = r.all_stock_analysis[k][1]
                        /\ v = Cardinality({ m \in available : m <= k })
               /\ AllUnavailable(r) =>
                     /\ r.recommendations = <<>>
                     /\ ~r.button
                     /\ <<"no_filter_info", i>> \in shown

\* C5 witness: a finished run whose first headline had every symbol of its
\* sector unavailable and which went on to its second headline
C5_Witness ==
    /\ pc = "done"
    /\ Len(results) = 2
    /\ AllUnavailable(results[1])
    /\ Len(results[1].all_stock_analysis) = 2
    /\ <<"no_filter_info", 1>> \in shown

TelegramNotes == {"telegram_not_configured_warning", "telegram_failed_error",
                  "telegram_exception_error"}

C6_State ==
    /\ pc \in {"start", "loop", "done"}
    /\ pc = "loop" => (idx \in 1..(Len(news_df) + 1) /\ Len(results) = idx - 1)
    /\ pc = "done" =>
          /\ ~secrets => <<"telegram_credentials_info", 0>> \in shown
          /\ news_df = <<>> =>
                <<"news_warning", 0>> \in shown /\ <<"analysis_warning", 0>> \in shown
          /\ sector_stocks_map = <<>> => <<"analysis_warning", 0>> \in shown
          /\ (news_df # <<>> /\ sector_stocks_map # <<>>) =>
                /\ Len(results) = Len(news_df)
                /\ \A i \in 1..Len(results) :
                      /\ results[i].stage = "no_stocks" =>
                            <<"no_stocks_warning", i>> \in shown
                      /\ (results[i].stage = "analysed"
                            /\ results[i].recommendations = <<>>) =>
                            <<"no_filter_info", i>> \in shown
                      /\ (results[i].button /\ clicked = i /\ results[i].sent = None) =>
                            \E m \in TelegramNotes : <<m, i>> \in shown
                /\ (\A i \in 1..Len(results) :
                       results[i].stage \in {"neutral", "no_sector"}) =>
                      <<"no_match_info", 0>> \in shown

\* every step of a run moves it towards its end: past the guard, to the next
\* row, or out of the loop
C6_Progress ==
    /\ pc = "start" => pc' \in {"loop", "done"}
    /\ pc = "loop" => \/ pc' = "loop" /\ idx' = idx + 1 /\ news_df' = news_df
                      \/ pc' = "done" /\ idx = Len(news_df) + 1

C7_EmptyInputNoWork ==
    (PastGuard /\ (news_df = <<>> \/ sector_stocks_map = <<>>)) =>
        /\ pc = "done"
        /\ calls = {}
        /\ results = <<>>
        /\ \A e \in events : e[1] \in {"news", "stocks"}
        /\ <<"analysis_warning", 0>> \in shown
        /\ news_df = <<>> => <<"news_warning", 0>> \in shown

\* C7 witness: a finished run whose feed gave no headlines although the
\* sector map was loaded
C7_Witness ==
    /\ pc = "done"
    /\ news_df = <<>>
    /\ sector_stocks_map # <<>>
    /\ <<"news_network_error", 0>> \in shown

\* the value the step's run got for a key
UsedNext(k) ==
    IF k = "news" THEN news_df'
    ELSE IF k = "stocks" THEN sector_stocks_map'
    ELSE LET r == results'[Len(results')]
         IN r.all_stock_analysis[CHOOSE i \in 1..Len(r.stocks_in_sector) :
                                     r.stocks_in_sector[i] = k]

\* an entry written at time t is still within the time-to-live of its key
Within(k, t) ==
    IF k = "news" THEN now - t < 2
    ELSE IF k = "stocks" THEN TRUE
    ELSE now - t < 48

C9_Step ==
    /\ \A k \in CacheKeys :
          (<<k, "hit">> \in events' \ events) =>
              /\ written[k] # None
              /\ Within(k, written[k][1].t)
              /\ UsedNext(k) = written[k][1].val
              /\ written'[k] = written[k]
    /\ \A k \in CacheKeys :
          (<<k, "miss">> \in events' \ events) =>
              /\ written[k] = None \/ ~Within(k, written[k][1].t)
              /\ written'[k] = Some([t |-> now, val |-> UsedNext(k)])
    /\ \A k \in CacheKeys :
          (written[k] # None /\ written'[k] # None /\ written'[k][1].t = written[k][1].t)
              => written'[k] = written[k]
    /\ (pc = "done" /\ pc' = "start" /\ fresh') => \A k \in CacheKeys : cache'[k] = None
    /\ fresh' => \A k \in CacheKeys :
                    <<k, "hit">> \in events' => <<k, "miss">> \in events'

\* C9: a run uses a memoized result only if it was written after the last
\* clear and within its time-to-live, a value is computed only when no such
\* entry exists and stays the same within its window, the clear removes
\* every entry at once, and the run after it recomputes every value it uses.
C9_CacheWindow == [][C9_Step]_vars

\* C9 witness: an hour after the first run, a run recomputed the news and
\* used the statistics computed by the first run
C9_Witness ==
    /\ now = 2
    /\ <<"news", "miss">> \in events
    /\ <<"MARUTI", "hit">> \in events
    /\ written["MARUTI"] # None
    /\ written["MARUTI"][1].t = 0

====
